---- MODULE Spec2Model ----
(***************************************************************************)
(* Model of the tsuru_certificate_issuer Terraform resource                *)
(* (internal/provider/resource_tsuru_certificate_issuer.go).               *)
(*                                                                         *)
(* Strings are sequences of byte codes, so that composing an identifier,   *)
(* splitting it again and sorting string lists are computed, not assumed.  *)
(***************************************************************************)
EXTENDS Integers, Sequences, FiniteSets, TLC

----------------------------------------------------------------------------
(* Bounds of the model *)

\* longest app / cname / issuer string drawn in the identifier specification
MaxLen == 2
\* number of distinct certificates the platform may issue
NumCerts == 2

----------------------------------------------------------------------------
(* Strings *)

\* the byte ':' ; the identifier delimiter of line 92 is two of them
Colon == 58

EmptyStr == << >>

\* "::"
Sep == <<Colon, Colon>>

\* all strings over alphabet of length at most n
StringsUpTo(alphabet, n) == UNION {[1..k -> alphabet] : k \in 0..n}

\* Go's string comparison a < b (bytewise lexicographic)
RECURSIVE StrLess(_, _)
StrLess(a, b) ==
    IF b = << >> THEN FALSE
    ELSE IF a = << >> THEN TRUE
    ELSE IF Head(a) # Head(b) THEN Head(a) < Head(b)
    ELSE StrLess(Tail(a), Tail(b))

\* strings.Index(s, sep) + 1, or 0 when sep does not occur in s
RECURSIVE IndexFrom(_, _, _)
IndexFrom(s, sep, k) ==
    IF k + Len(sep) - 1 > Len(s) THEN 0
    ELSE IF SubSeq(s, k, k + Len(sep) - 1) = sep THEN k
    ELSE IndexFrom(s, sep, k + 1)

\* strings.Split(s, sep) for a non-empty sep: cut at the leftmost
\* occurrences, never overlapping
RECURSIVE Split(_, _)
Split(s, sep) ==
    LET i == IndexFrom(s, sep, 1)
    IN  IF i = 0 THEN <<s>>
        ELSE <<SubSeq(s, 1, i - 1)>> \o Split(SubSeq(s, i + Len(sep), Len(s)), sep)

\* IDtoParts(id, minimumParts): the shared identifier parser
IDtoParts(id, minimumParts) ==
    LET parts == Split(id, Sep)
    IN  IF Len(parts) < minimumParts
        THEN [err |-> TRUE, parts |-> << >>]
        ELSE [err |-> FALSE, parts |-> parts]

\* a composition that puts the issuer before the cname
ComposeIdIssuerFirst(app, cname, issuer) == app \o Sep \o issuer \o Sep \o cname

\* app + "::" + cname + "::" + issuer
ComposeId(app, cname, issuer) == app \o Sep \o cname \o Sep \o issuer

\* insert string x into the ascending list s
RECURSIVE InsertSorted(_, _)
InsertSorted(x, s) ==
    IF s = << >> THEN <<x>>
    ELSE IF StrLess(x, Head(s)) THEN <<x>> \o s
    ELSE <<Head(s)>> \o InsertSorted(x, Tail(s))

\* a sort.Strings that leaves the list as it is
SortStringsOmitted(s) == s

\* sort.Strings(s)
RECURSIVE SortStrings(_)
SortStrings(s) ==
    IF s = << >> THEN << >>
    ELSE InsertSorted(Head(s), SortStrings(Tail(s)))

----------------------------------------------------------------------------
(* Names used by the model, as byte strings *)

AppA == <<97>>                      \* "a"
CnameC == <<99>>                    \* "c"
CnameD == <<100>>                   \* "d"
IssuerI == <<105>>                  \* "i"
IssuerJ == <<106>>                  \* "j"
RouterR1 == <<114, 49>>             \* "r1"
RouterR2 == <<114, 50>>             \* "r2"

\* the applications the remote platform knows
Apps == {AppA}
\* the routers of every application
Routers == {RouterR1, RouterR2}
\* the values the configuration gives the three required fields
AppNames == {AppA}
CnameNames == {CnameC}
IssuerNames == {IssuerI, IssuerJ}
\* certificates the platform may issue: "x", "y", ...
Certs == {<<119 + k>> : k \in 1..NumCerts}
\* identifiers an operator may import: those of the bindings that can be
\* configured, that of a binding of another cname ("a::d::i"), a malformed one
\* with two parts ("a::c")
ImportIds ==
    {ComposeId(a, c, i) : a \in AppNames, c \in CnameNames, i \in IssuerNames}
    \cup {ComposeId(AppA, CnameD, IssuerI), AppA \o Sep \o CnameC}
\* alphabet of the identifier specification: 'a' and ':'
IdAlphabet == {97, Colon}

\* all orders in which a map over the set S may be iterated
Orders(S) ==
    {o \in [1..Cardinality(S) -> S] : \A x \in S : \E k \in DOMAIN o : o[k] = x}

----------------------------------------------------------------------------
(* State *)

VARIABLES
    d,        \* the schema.ResourceData of the resource: id and the six fields
    remote,   \* the platform: app -> router -> cname -> [Issuer, Certificate]
    last,     \* the last step: which operation, its result, its remote calls
    unset     \* <<app, cname, issuers>>: the bindings unset and not assigned
              \* since, with the issuers other than the binding's own that the
              \* unassign call took from the cname

vars == <<d, remote, last, unset>>

\* a map with no entry
EmptyMap == [x \in {} |-> x]
MapPut(f, k, v) == [x \in DOMAIN f \cup {k} |-> IF x = k THEN v ELSE f[x]]
MapDel(f, k) == [x \in DOMAIN f \ {k} |-> f[x]]

\* a ResourceData with no identifier and the zero value of every field
NoData ==
    [id |-> EmptyStr, app |-> EmptyStr, cname |-> EmptyStr, issuer |-> EmptyStr,
     router |-> << >>, certificate |-> << >>, ready |-> FALSE]

NoStep == [op |-> "none", result |-> "ok", calls |-> << >>]

----------------------------------------------------------------------------
(* The remote platform, as the three API operations change and show it *)

\* AppSetCertIssuer(app, {cname, issuer}): the routers in onRouters start
\* serving cname under issuer, with no certificate issued yet
RemoteAssign(rem, app, cname, issuer, onRouters) ==
    [rem EXCEPT ![app] =
        [r \in DOMAIN rem[app] |->
            IF r \in onRouters
            THEN MapPut(rem[app][r], cname, [Issuer |-> issuer, Certificate |-> EmptyStr])
            ELSE rem[app][r]]]

\* AppUnsetCertIssuer(app, cname): no router serves cname under an issuer
RemoteUnassign(rem, app, cname) ==
    [rem EXCEPT ![app] = [r \in DOMAIN rem[app] |-> MapDel(rem[app][r], cname)]]

\* the platform issues certificate cert for cname on router r
RemoteIssue(rem, app, r, cname, cert) ==
    [rem EXCEPT ![app][r][cname].Certificate = cert]

----------------------------------------------------------------------------
(* resourceTsuruCertificateIssuerRead *)

\* a loop body that does not compare the issuer
ReadRouterAnyIssuer(listing, routerName, cname, issuer, used) ==
    LET router == listing[routerName]
    IN  IF cname \notin DOMAIN router THEN used
        ELSE [usedRouters |-> Append(used.usedRouters, routerName),
              usedCertificates |->
                  IF router[cname].Certificate # EmptyStr
                  THEN Append(used.usedCertificates, router[cname].Certificate)
                  ELSE used.usedCertificates]

\* the body of the loop over certificates.Routers, for one router
ReadRouter(listing, routerName, cname, issuer, used) ==
    LET router == listing[routerName]
    IN  IF cname \notin DOMAIN router THEN used
        ELSE IF router[cname].Issuer # issuer THEN used
        ELSE [usedRouters |-> Append(used.usedRouters, routerName),
              usedCertificates |->
                  IF router[cname].Certificate # EmptyStr
                  THEN Append(used.usedCertificates, router[cname].Certificate)
                  ELSE used.usedCertificates]

\* the loop, visiting the routers in the order the map iteration yields
RECURSIVE ReadRouters(_, _, _, _, _)
ReadRouters(listing, order, cname, issuer, used) ==
    IF order = << >> THEN used
    ELSE ReadRouters(listing, Tail(order), cname, issuer,
                     ReadRouter(listing, Head(order), cname, issuer, used))

\* a write that derives ready from the routers found
ReadWriteReadyFromRouters(dd, app, cname, issuer, usedRouters, usedCertificates) ==
    [dd EXCEPT !.app = app, !.cname = cname, !.issuer = issuer,
               !.router = usedRouters,
               !.certificate = usedCertificates,
               !.ready = Len(usedRouters) > 0]

\* a write that drops the identifier when no router serves the binding
ReadWriteDropsGone(dd, app, cname, issuer, usedRouters, usedCertificates) ==
    [dd EXCEPT !.id = IF usedRouters = << >> THEN EmptyStr ELSE dd.id,
               !.app = app, !.cname = cname, !.issuer = issuer,
               !.router = usedRouters,
               !.certificate = usedCertificates,
               !.ready = Len(usedCertificates) > 0]

\* the six d.Set calls that end Read
ReadWrite(dd, app, cname, issuer, usedRouters, usedCertificates) ==
    [dd EXCEPT !.app = app, !.cname = cname, !.issuer = issuer,
               !.router = usedRouters,
               !.certificate = usedCertificates,
               !.ready = Len(usedCertificates) > 0]

\* Read on the data dd against the platform rem; getOk tells whether the
\* AppGetCertificates call succeeds, order is the map's iteration order
resourceTsuruCertificateIssuerRead(dd, rem, getOk, order) ==
    LET p == IDtoParts(dd.id, 3)
    IN  IF p.err THEN [d |-> dd, result |-> "parse", calls |-> << >>]
        ELSE
        LET app == p.parts[1]
            cname == p.parts[2]
            issuer == p.parts[3]
            call == [api |-> "AppGetCertificates", args |-> <<app>>]
        IN  IF ~getOk \/ app \notin DOMAIN rem
            THEN [d |-> dd, result |-> "get", calls |-> <<call>>]
            ELSE
            LET used == ReadRouters(rem[app], order, cname, issuer,
                            [usedRouters |-> << >>, usedCertificates |-> << >>])
            IN  [d |-> ReadWrite(dd, app, cname, issuer,
                                 SortStrings(used.usedRouters),
                                 SortStrings(used.usedCertificates)),
                 result |-> "ok", calls |-> <<call>>]

----------------------------------------------------------------------------
(* resourceTsuruCertificateIssuerSet *)

\* a Set that records the identifier before it looks at the error of the
\* assign call
SetIdBeforeErrorCheck(dd, rem, assignOk, onRouters, getOk, order) ==
    LET app == dd.app
        cname == dd.cname
        issuer == dd.issuer
        call == [api |-> "AppSetCertIssuer", args |-> <<app, cname, issuer>>]
        d1 == [dd EXCEPT !.id = ComposeId(app, cname, issuer)]
    IN  IF ~assignOk \/ app \notin DOMAIN rem
        THEN [d |-> d1, remote |-> rem, result |-> "assign", calls |-> <<call>>]
        ELSE
        LET rem1 == RemoteAssign(rem, app, cname, issuer, onRouters)
            r == resourceTsuruCertificateIssuerRead(d1, rem1, getOk, order)
        IN  [d |-> r.d, remote |-> rem1, result |-> r.result,
             calls |-> <<call>> \o r.calls]

\* a Set that takes the identifier back when the re-read fails
SetIdClearedOnReadError(dd, rem, assignOk, onRouters, getOk, order) ==
    LET app == dd.app
        cname == dd.cname
        issuer == dd.issuer
        call == [api |-> "AppSetCertIssuer", args |-> <<app, cname, issuer>>]
    IN  IF ~assignOk \/ app \notin DOMAIN rem
        THEN [d |-> dd, remote |-> rem, result |-> "assign", calls |-> <<call>>]
        ELSE
        LET rem1 == RemoteAssign(rem, app, cname, issuer, onRouters)
            d1 == [dd EXCEPT !.id = ComposeId(app, cname, issuer)]
            r == resourceTsuruCertificateIssuerRead(d1, rem1, getOk, order)
        IN  [d |-> IF r.result = "ok" THEN r.d ELSE dd,
             remote |-> rem1, result |-> r.result,
             calls |-> <<call>> \o r.calls]

\* assignOk tells whether the AppSetCertIssuer call succeeds, onRouters which
\* routers then serve the cname; getOk and order are those of the re-read
resourceTsuruCertificateIssuerSet(dd, rem, assignOk, onRouters, getOk, order) ==
    LET app == dd.app
        cname == dd.cname
        issuer == dd.issuer
        call == [api |-> "AppSetCertIssuer", args |-> <<app, cname, issuer>>]
    IN  IF ~assignOk \/ app \notin DOMAIN rem
        THEN [d |-> dd, remote |-> rem, result |-> "assign", calls |-> <<call>>]
        ELSE
        LET rem1 == RemoteAssign(rem, app, cname, issuer, onRouters)
            d1 == [dd EXCEPT !.id = ComposeId(app, cname, issuer)]
            r == resourceTsuruCertificateIssuerRead(d1, rem1, getOk, order)
        IN  [d |-> r.d, remote |-> rem1, result |-> r.result,
             calls |-> <<call>> \o r.calls]

----------------------------------------------------------------------------
(* resourceTsuruCertificateIssuerUnset *)

\* an Unset that sends the issuer part where the cname belongs
UnsetSendsIssuerPart(dd, rem, unassignOk, getOk, order) ==
    LET p == IDtoParts(dd.id, 3)
    IN  IF p.err THEN [d |-> dd, remote |-> rem, result |-> "parse", calls |-> << >>]
        ELSE
        LET app == p.parts[1]
            cname == p.parts[3]
            call == [api |-> "AppUnsetCertIssuer", args |-> <<app, cname>>]
        IN  IF ~unassignOk \/ app \notin DOMAIN rem
            THEN [d |-> dd, remote |-> rem, result |-> "unassign", calls |-> <<call>>]
            ELSE
            LET rem1 == RemoteUnassign(rem, app, cname)
                r == resourceTsuruCertificateIssuerRead(dd, rem1, getOk, order)
            IN  [d |-> r.d, remote |-> rem1, result |-> r.result,
                 calls |-> <<call>> \o r.calls]

resourceTsuruCertificateIssuerUnset(dd, rem, unassignOk, getOk, order) ==
    LET p == IDtoParts(dd.id, 3)
    IN  IF p.err THEN [d |-> dd, remote |-> rem, result |-> "parse", calls |-> << >>]
        ELSE
        LET app == p.parts[1]
            cname == p.parts[2]
            call == [api |-> "AppUnsetCertIssuer", args |-> <<app, cname>>]
        IN  IF ~unassignOk \/ app \notin DOMAIN rem
            THEN [d |-> dd, remote |-> rem, result |-> "unassign", calls |-> <<call>>]
            ELSE
            LET rem1 == RemoteUnassign(rem, app, cname)
                r == resourceTsuruCertificateIssuerRead(dd, rem1, getOk, order)
            IN  [d |-> r.d, remote |-> rem1, result |-> r.result,
                 calls |-> <<call>> \o r.calls]

----------------------------------------------------------------------------
(* Bookkeeping of the bindings unset and not assigned since *)

\* the <<app, cname>> pairs the calls of one operation assign
Assigned(calls) ==
    {<<calls[k].args[1], calls[k].args[2]>> :
        k \in {j \in DOMAIN calls : calls[j].api = "AppSetCertIssuer"}}

\* the routers of listing that serve cname under issuer
Matching(listing, cname, issuer) ==
    {r \in DOMAIN listing :
        cname \in DOMAIN listing[r] /\ listing[r][cname].Issuer = issuer}

\* the issuers under which some router of listing serves cname
IssuersOf(listing, cname) ==
    {listing[r][cname].Issuer : r \in {x \in DOMAIN listing : cname \in DOMAIN listing[x]}}

\* unset without the records of the <<app, cname>> pairs in pairs
Forget(u, pairs) == {x \in u : <<x[1], x[2]>> \notin pairs}

\* unset after an unassign call for the binding that id names succeeded on rem
Remember(u, id, rem) ==
    LET p == IDtoParts(id, 3)
    IN  IF p.err \/ p.parts[1] \notin DOMAIN rem THEN u
        ELSE Forget(u, {<<p.parts[1], p.parts[2]>>})
             \cup {<<p.parts[1], p.parts[2],
                     IssuersOf(rem[p.parts[1]], p.parts[2]) \ {p.parts[3]}>>}

----------------------------------------------------------------------------
(* Actions *)

\* the routers of application app, none when the platform does not know it
RoutersOf(rem, app) == IF app \in DOMAIN rem THEN DOMAIN rem[app] ELSE {}

\* the orders in which the map certificates.Routers of app may be iterated
AllRouterOrders == Orders(Routers)
RouterOrders(rem, app) ==
    IF RoutersOf(rem, app) = Routers THEN AllRouterOrders
    ELSE Orders(RoutersOf(rem, app))

\* the application that the identifier id names, "" when it names none
AppOf(id) ==
    LET p == IDtoParts(id, 3)
    IN  IF p.err THEN EmptyStr ELSE p.parts[1]

\* the SDK builds the data of a resource to create from the configuration
\* (schema: app, cname, issuer are required strings)
NewResource(a, c, i) ==
    /\ d' = [NoData EXCEPT !.app = a, !.cname = c, !.issuer = i]
    /\ last' = [op |-> "New", result |-> "ok", calls |-> << >>]
    /\ UNCHANGED <<remote, unset>>

\* the operator imports a resource under the identifier id
Import(id) ==
    /\ d' = [NoData EXCEPT !.id = id]
    /\ last' = [op |-> "Import", result |-> "ok", calls |-> << >>]
    /\ UNCHANGED <<remote, unset>>

\* CreateContext: called for a resource that has no identifier yet
Set ==
    /\ d.id = EmptyStr
    /\ \E assignOk \in BOOLEAN, onRouters \in SUBSET RoutersOf(remote, d.app),
          getOk \in BOOLEAN, order \in RouterOrders(remote, d.app) :
          \* inputs that the run does not use are fixed
          /\ ~assignOk => onRouters = {} /\ ~getOk
          /\ ~getOk => order = CHOOSE o \in RouterOrders(remote, d.app) : TRUE
          /\ LET r == resourceTsuruCertificateIssuerSet(d, remote, assignOk,
                                                        onRouters, getOk, order)
             IN  /\ d' = r.d
                 /\ remote' = r.remote
                 /\ last' = [op |-> "Set", result |-> r.result, calls |-> r.calls]
                 /\ unset' = IF r.result = "assign" THEN unset
                             ELSE Forget(unset, Assigned(r.calls))

\* DeleteContext: called for a resource that has an identifier
Unset ==
    /\ d.id # EmptyStr
    /\ \E unassignOk \in BOOLEAN, getOk \in BOOLEAN,
          order \in RouterOrders(remote, AppOf(d.id)) :
          /\ ~unassignOk => ~getOk
          /\ ~getOk => order = CHOOSE o \in RouterOrders(remote, AppOf(d.id)) : TRUE
          /\ LET r == resourceTsuruCertificateIssuerUnset(d, remote, unassignOk,
                                                          getOk, order)
             IN  /\ d' = r.d
                 /\ remote' = r.remote
                 /\ last' = [op |-> "Unset", result |-> r.result, calls |-> r.calls]
                 /\ unset' = IF r.result \in {"ok", "get"}
                             THEN Remember(unset, d.id, remote)
                             ELSE unset

\* ReadContext: called for a resource that has an identifier
Read ==
    /\ d.id # EmptyStr
    /\ \E getOk \in BOOLEAN, order \in RouterOrders(remote, AppOf(d.id)) :
          /\ ~getOk => order = CHOOSE o \in RouterOrders(remote, AppOf(d.id)) : TRUE
          /\ LET r == resourceTsuruCertificateIssuerRead(d, remote, getOk, order)
             IN  /\ d' = r.d
                 /\ last' = [op |-> "Read", result |-> r.result, calls |-> r.calls]
    /\ UNCHANGED <<remote, unset>>

EnvStep == [op |-> "Env", result |-> "ok", calls |-> << >>]

\* the platform issues a certificate for a cname served under an issuer
IssueCertificate(a, r, c, cert) ==
    /\ c \in DOMAIN remote[a][r]
    /\ remote' = RemoteIssue(remote, a, r, c, cert)
    /\ last' = EnvStep
    /\ UNCHANGED <<d, unset>>

\* another client of the platform removes the issuer of a cname
ExternalUnassign(a, c) ==
    /\ remote' = RemoteUnassign(remote, a, c)
    /\ last' = EnvStep
    /\ UNCHANGED <<d, unset>>

Init ==
    /\ d = NoData
    /\ remote = [a \in Apps |-> [r \in Routers |-> EmptyMap]]
    /\ last = NoStep
    /\ unset = {}

Next ==
    \/ \E a \in AppNames, c \in CnameNames, i \in IssuerNames : NewResource(a, c, i)
    \/ \E id \in ImportIds : Import(id)
    \/ Set
    \/ Unset
    \/ Read
    \/ \E a \in Apps, r \in Routers, c \in CnameNames, cert \in Certs :
          IssueCertificate(a, r, c, cert)
    \/ \E a \in Apps, c \in CnameNames : ExternalUnassign(a, c)

Spec == Init /\ [][Next]_vars

----------------------------------------------------------------------------
(* The identifier round trip, over all strings up to MaxLen *)

IdStrings == StringsUpTo(IdAlphabet, MaxLen)

\* every resource to create that the configuration can describe, on a
\* platform that serves no cname yet and knows, with one router each, the
\* application configured and the one the composed identifier will parse to
InitId ==
    /\ d \in {[NoData EXCEPT !.app = a, !.cname = c, !.issuer = i] :
                a \in IdStrings, c \in IdStrings, i \in IdStrings}
    /\ remote = [a \in {d.app, Split(d.app, Sep)[1]} |-> [r \in {RouterR1} |-> EmptyMap]]
    /\ last = NoStep
    /\ unset = {}

NextId == Set \/ Read \/ Unset

SpecId == InitId /\ [][NextId]_vars

----------------------------------------------------------------------------
(* Vocabulary of the properties *)

Handlers == {"Set", "Unset", "Read"}

\* the last step was a handler that returned no error, so that d is the
\* state its Read wrote from the listing that remote still holds
ReadDone == last.op \in Handlers /\ last.result = "ok"

\* the listing of the application d names
Listing == remote[d.app]

\* the routers serving d's cname under d's issuer
Target == Matching(Listing, d.cname, d.issuer)

\* the values of the list s
Range(s) == {s[k] : k \in DOMAIN s}

\* how often v occurs in the list s
Count(s, v) == Cardinality({k \in DOMAIN s : s[k] = v})

\* s is in ascending lexicographic order
Ascending(s) == \A k \in 1..(Len(s) - 1) : ~StrLess(s[k + 1], s[k])

\* s holds no value twice
NoDuplicate(s) == \A j, k \in DOMAIN s : s[j] = s[k] => j = k

EmptyLists(dd) == dd.router = << >> /\ dd.certificate = << >> /\ ~dd.ready

----------------------------------------------------------------------------
(* C3: after every successful Read, also the one that ends Set or Unset,   *)
(* ready is true exactly when some router serving the target cname under   *)
(* the target issuer reports a non-empty certificate, which is exactly     *)
(* when the certificate list is not empty; matching routers that all       *)
(* report an empty certificate leave ready false.                          *)
C3_ReadyIffCertificate ==
    ReadDone =>
        /\ d.ready = (\E r \in Target : Listing[r][d.cname].Certificate # EmptyStr)
        /\ d.ready = (d.certificate # << >>)

\* a Read found matching routers of which none has a certificate, and
\* reported ready = false
C3_Witness ==
    /\ ReadDone
    /\ Target = Routers
    /\ \A r \in Target : Listing[r][d.cname].Certificate = EmptyStr
    /\ ~d.ready

(* C4: after every successful Read the router list holds exactly the       *)
(* routers whose CNAME table has the target cname under the target issuer, *)
(* each once, and the certificate list holds exactly the non-empty         *)
(* certificates of those routers, one per router that has one, so it is    *)
(* never longer than the router list.                                      *)
C4_ExactlyMatching ==
    ReadDone =>
        /\ Range(d.router) = Target
        /\ Len(d.router) = Cardinality(Target)
        /\ \A v \in Range(d.certificate) \cup Certs \cup {EmptyStr} :
              Count(d.certificate, v) =
                  IF v = EmptyStr THEN 0
                  ELSE Cardinality({r \in Target : Listing[r][d.cname].Certificate = v})
        /\ Len(d.certificate) <= Len(d.router)

\* a Read kept one router and left out another that serves the cname under
\* a different issuer, and the router kept has a certificate
C4_Witness ==
    /\ ReadDone
    /\ Len(d.router) = 1
    /\ Len(d.certificate) = 1
    /\ \E r \in Routers \ Target :
          /\ d.cname \in DOMAIN Listing[r]
          /\ Listing[r][d.cname].Issuer # d.issuer
          /\ Listing[r][d.cname].Certificate # EmptyStr

(* C5: after every successful Read the router list and the certificate     *)
(* list are in ascending lexicographic order, whatever the order in which  *)
(* the routers of the listing were iterated; a Read of the unchanged       *)
(* listing, in any iteration order, writes the same state again.           *)
C5_Sorted ==
    ReadDone =>
        /\ Ascending(d.router)
        /\ Ascending(d.certificate)
        /\ \A order \in RouterOrders(remote, d.app) :
              resourceTsuruCertificateIssuerRead(d, remote, TRUE, order).d = d

\* a Read wrote two routers and two different certificates, of which the
\* first router reports the greater one
C5_Witness ==
    /\ ReadDone
    /\ Len(d.router) = 2
    /\ Len(d.certificate) = 2
    /\ d.certificate[1] # d.certificate[2]
    /\ Listing[d.router[1]][d.cname].Certificate = d.certificate[2]

(* C6: after every successful Read the certificate list holds no value     *)
(* twice, even when several matching routers report the same certificate,  *)
(* and the router list holds no router twice.                              *)
C6_NoDuplicates ==
    ReadDone => NoDuplicate(d.certificate) /\ NoDuplicate(d.router)

----------------------------------------------------------------------------
(* C1: the identifier Set composes is decomposed by Read into the values   *)
(* configured.                                                             *)

\* s holds the delimiter "::"
HasSep(s) == IndexFrom(s, Sep, 1) # 0

EndsInColon(s) == s # << >> /\ s[Len(s)] = Colon

\* no field holds the delimiter, and neither app nor cname ends in ':'
Delimitable(app, cname, issuer) ==
    /\ ~HasSep(app) /\ ~HasSep(cname) /\ ~HasSep(issuer)
    /\ ~EndsInColon(app) /\ ~EndsInColon(cname)

\* this step is a Set that returned no error
SetSucceeds == d.id = EmptyStr /\ last'.op = "Set" /\ last'.result = "ok"

\* the state holds the identifier of the configured values, and the values
RoundTrip ==
    /\ d'.id = ComposeId(d.app, d.cname, d.issuer)
    /\ d'.app = d.app /\ d'.cname = d.cname /\ d'.issuer = d.issuer

(* C1 as stated: after a successful Set the fields app, cname and issuer   *)
(* equal the configured values, for all strings, also those that hold the  *)
(* delimiter "::" or are empty.                                            *)
C1_RoundTripAllStrings == [][SetSucceeds => RoundTrip]_vars

(* C1 as amended: after a successful Set the fields app, cname and issuer  *)
(* equal the configured values, empty ones included, provided that no      *)
(* value holds "::" and that neither app nor cname ends in ':'.            *)
C1_RoundTripDelimitable ==
    [][SetSucceeds /\ Delimitable(d.app, d.cname, d.issuer) => RoundTrip]_vars

\* a Set succeeded with an empty cname and the issuer ":a", and the state
\* holds the three values configured
C1_Witness ==
    /\ last.op = "Set" /\ last.result = "ok"
    /\ last.calls[1].args = <<d.app, d.cname, d.issuer>>
    /\ d.id = ComposeId(d.app, d.cname, d.issuer)
    /\ d.app # EmptyStr
    /\ d.cname = EmptyStr
    /\ d.issuer = <<Colon, 97>>

----------------------------------------------------------------------------
\* <<app, cname>> of the binding the identifier id names, when it names one
BindingOf(id) ==
    LET p == IDtoParts(id, 3)
    IN  IF p.err THEN {} ELSE {<<p.parts[1], p.parts[2]>>}

\* the binding of d has been unset and its cname not been assigned since
WasUnset == \E u \in unset : <<u[1], u[2]>> \in BindingOf(d.id)

(* C2: once a binding has been unset successfully, every successful Read   *)
(* of it, the one that ends Unset included, reports an empty router list,  *)
(* an empty certificate list and ready = false, as long as no issuer is    *)
(* assigned to its cname again.                                            *)
C2_UnsetThenEmpty == ReadDone /\ WasUnset => EmptyLists(d)

\* a Read of a binding unset before succeeded
C2_Witness ==
    /\ last.op = "Read" /\ last.result = "ok"
    /\ WasUnset
    /\ EmptyLists(d)

----------------------------------------------------------------------------
\* the operation api occurs at most once in calls
AtMostOnce(calls) ==
    \A j, k \in DOMAIN calls : calls[j].api = calls[k].api => j = k

LastCall == last'.calls[Len(last'.calls)]

(* C7: a handler issues each remote operation at most once. When the       *)
(* assign call of Set fails, the unassign call of Unset fails, the         *)
(* identifier does not parse in Unset or Read, or the get-certificates     *)
(* call of Read fails, the handler returns the error, the failed call is   *)
(* its last call, and the resource state is as it was when that handler    *)
(* was entered; for the Read that ends Set this is the state with the      *)
(* identifier already recorded.                                            *)
C7_NoRetryNoRecovery ==
    [][last'.op \in Handlers =>
        /\ AtMostOnce(last'.calls)
        /\ last'.result = "parse" =>
              /\ last'.op \in {"Unset", "Read"}
              /\ last'.calls = << >>
              /\ d' = d /\ remote' = remote
        /\ last'.result = "assign" =>
              /\ last'.op = "Set"
              /\ Len(last'.calls) = 1 /\ LastCall.api = "AppSetCertIssuer"
              /\ d' = d /\ remote' = remote
        /\ last'.result = "unassign" =>
              /\ last'.op = "Unset"
              /\ Len(last'.calls) = 1 /\ LastCall.api = "AppUnsetCertIssuer"
              /\ d' = d /\ remote' = remote
        /\ last'.result = "get" =>
              /\ LastCall.api = "AppGetCertificates"
              /\ last'.op = "Read" =>
                    Len(last'.calls) = 1 /\ d' = d /\ remote' = remote
              /\ last'.op = "Unset" => Len(last'.calls) = 2 /\ d' = d
              /\ last'.op = "Set" =>
                    /\ Len(last'.calls) = 2
                    /\ d' = [d EXCEPT !.id = ComposeId(d.app, d.cname, d.issuer)]
    ]_vars

\* the unassign call of an Unset failed on a resource whose state holds
\* routers and a certificate, and the state is kept
C7_Witness ==
    /\ last.op = "Unset" /\ last.result = "unassign"
    /\ d.router # << >> /\ d.ready

----------------------------------------------------------------------------
\* the step is a Set whose assign call succeeded
SetAssigned == last'.op = "Set" /\ last'.result \in {"ok", "get"}

(* C8: when the assign call of Set has succeeded the identifier is         *)
(* app::cname::issuer before the re-read starts: if the re-read fails, Set *)
(* returns the error with the identifier recorded and nothing else         *)
(* changed, the assignment is in place on the platform, and Set has made   *)
(* no call that takes it back.                                             *)
C8_IdentifierRecorded ==
    [][SetAssigned =>
        /\ d'.id = ComposeId(d.app, d.cname, d.issuer)
        /\ \E onRouters \in SUBSET RoutersOf(remote, d.app) :
              remote' = RemoteAssign(remote, d.app, d.cname, d.issuer, onRouters)
        /\ \A k \in DOMAIN last'.calls : last'.calls[k].api # "AppUnsetCertIssuer"
        /\ last'.result = "get" =>
              d' = [d EXCEPT !.id = ComposeId(d.app, d.cname, d.issuer)]
    ]_vars

\* the re-read of a Set failed: the identifier is recorded, the computed
\* fields are not, and a router serves the cname under the issuer
C8_Witness ==
    /\ last.op = "Set" /\ last.result = "get"
    /\ d.id = ComposeId(d.app, d.cname, d.issuer)
    /\ d.router = << >>
    /\ Matching(remote[d.app], d.cname, d.issuer) # {}

----------------------------------------------------------------------------
\* the step before was an Unset whose unassign call succeeded
Unassigned == last.op = "Unset" /\ last.result \in {"ok", "get"}

(* C9: the unassign call of Unset carries the app and the cname of the     *)
(* identifier and not its issuer; once it has succeeded no router serves   *)
(* the cname under any issuer, so that a Read of a binding of the same app *)
(* and cname with another issuer reports empty lists and ready = false.    *)
C9_UnsetKeyedOnCname ==
    Unassigned =>
        LET p == IDtoParts(d.id, 3).parts
        IN  /\ last.calls[1] = [api |-> "AppUnsetCertIssuer", args |-> <<p[1], p[2]>>]
            /\ IssuersOf(remote[p[1]], p[2]) = {}
            /\ \A j \in IssuerNames, order \in RouterOrders(remote, p[1]) :
                  LET other == [NoData EXCEPT !.id = ComposeId(p[1], p[2], j)]
                      r == resourceTsuruCertificateIssuerRead(other, remote, TRUE, order)
                  IN  r.result = "ok" /\ EmptyLists(r.d)

\* an Unset succeeded that took from the cname an issuer other than the one
\* of the binding unset
C9_Witness ==
    /\ last.op = "Unset" /\ last.result = "ok"
    /\ \E u \in unset : <<u[1], u[2]>> \in BindingOf(d.id) /\ u[3] # {}

----------------------------------------------------------------------------
(* C10: Read never changes the identifier. A Read whose identifier parses  *)
(* and whose remote call succeeds returns no error and writes app, cname   *)
(* and issuer from the three parts of the identifier; when no router       *)
(* serves the cname under the issuer it writes empty lists and             *)
(* ready = false and still keeps the identifier.                           *)
C10_ReadKeepsIdentifier ==
    [][last'.op = "Read" =>
        LET p == IDtoParts(d.id, 3)
        IN  /\ d'.id = d.id
            /\ last'.result = "parse" <=> p.err
            /\ last'.result = "ok" =>
                  /\ d'.app = p.parts[1]
                  /\ d'.cname = p.parts[2]
                  /\ d'.issuer = p.parts[3]
                  /\ Matching(remote[p.parts[1]], p.parts[2], p.parts[3]) = {}
                        => EmptyLists(d')
    ]_vars

\* a Read succeeded on a binding whose cname the routers serve under
\* another issuer only: the lists are empty and the identifier is kept
C10_Witness ==
    /\ last.op = "Read" /\ last.result = "ok"
    /\ d.id = ComposeId(d.app, d.cname, d.issuer)
    /\ EmptyLists(d)
    /\ IssuersOf(Listing, d.cname) # {}

====
